---- MODULE Spec2Model ----
(***************************************************************************)
(* A model of ds-cli (src/main.py): a command-line client that sends one   *)
(* query to a Datastore HTTP endpoint, infers a type scheme from the       *)
(* returned entities, flattens the entities and prints the result.         *)
(*                                                                         *)
(* Representation of Python values.  Every JSON/Python value the program   *)
(* handles is a record [py, items, s]:                                     *)
(*   py = "dict"  items = the mapping's items in insertion order, each     *)
(*                [k |-> key, v |-> value]                                 *)
(*   py = "str"   s = the string's code points                             *)
(*   py = "int"   s = <<n>>                                                *)
(*   py = "bool"  s = <<1>> (True) or <<0>> (False)                        *)
(*   py = "None"                                                           *)
(* The key of a tagged value is a sequence of tokens, "stringValue" being  *)
(* <<"string", "Value">>: str.replace("Value", "") deletes the "Value"     *)
(* tokens and `"Value" in k` looks for one.                                *)
(***************************************************************************)
EXTENDS Integers, Sequences, FiniteSets, TLC

VARIABLES
    pc,          \* position of the invocation in main() / format_response()
    argv,        \* the command line: positionals and the flags given
    environ,     \* the process environment: which DATASTORE_* variables are set
    stdin,       \* the text on standard input
    args,        \* the Namespace get_args() returns
    client,      \* the Datastore instance main() constructs
    requests,    \* the HTTP requests sent so far
    response,    \* the requests.Response of the call
    format,      \* format_response's format parameter
    style,       \* format_response's style parameter
    data,        \* response.json() as held (and mutated) by format_response
    output_data, \* {"scheme": ..., "entities": [...]}
    idx,         \* position of the flattening loop in entityResults
    stdout,      \* what has been printed
    err          \* the exception that ended the invocation, if any

vars == <<pc, argv, environ, stdin, args, client, requests, response, format,
          style, data, output_data, idx, stdout, err>>

-----------------------------------------------------------------------------
(* Bounds of the model *)

\* entities in a response batch
MaxEntities == 2
\* keys in one tagged value
MaxKeys == 2
\* characters in a text stored as a blob
MaxTextLen == 2
\* characters in a query text
MaxQueryLen == 6
\* configuration flags given on one command line
MaxFlags == 1

-----------------------------------------------------------------------------
(* Python values *)

Dict(items) == [py |-> "dict", items |-> items, s |-> <<>>]
Str(s) == [py |-> "str", items |-> <<>>, s |-> s]
PyInt(n) == [py |-> "int", items |-> <<>>, s |-> <<n>>]
PyTrue == [py |-> "bool", items |-> <<>>, s |-> <<1>>]
PyNone == [py |-> "None", items |-> <<>>, s |-> <<>>]

\* "yaml", "json", "scheme" as strings
StrYaml == Str(<<121, 97, 109, 108>>)
StrJson == Str(<<106, 115, 111, 110>>)
StrScheme == Str(<<115, 99, 104, 101, 109, 101>>)

\* the sequences over S of length at most n
SeqsUpTo(S, n) == UNION {[1..k -> S] : k \in 0..n}

-----------------------------------------------------------------------------
(* base64 and UTF-8, as the standard library computes them *)

\* the 6-bit value of a base64 alphabet character, 64 for any other character
B64Value(c) ==
    IF c >= 65 /\ c <= 90 THEN c - 65
    ELSE IF c >= 97 /\ c <= 122 THEN c - 71
    ELSE IF c >= 48 /\ c <= 57 THEN c + 4
    ELSE IF c = 43 THEN 62
    ELSE IF c = 47 THEN 63
    ELSE 64

\* the alphabet character of a 6-bit value
B64Char(n) ==
    IF n < 26 THEN n + 65
    ELSE IF n < 52 THEN n + 71
    ELSE IF n < 62 THEN n - 4
    ELSE IF n = 62 THEN 43
    ELSE 47

\* '='
B64Pad == 61

\* base64.b64encode: three bytes to four characters, '=' padding at the end
RECURSIVE B64Encode(_)
B64Encode(bytes) ==
    IF bytes = <<>> THEN <<>>
    ELSE IF Len(bytes) = 1 THEN
        <<B64Char(bytes[1] \div 4), B64Char((bytes[1] % 4) * 16), B64Pad, B64Pad>>
    ELSE IF Len(bytes) = 2 THEN
        <<B64Char(bytes[1] \div 4),
          B64Char(((bytes[1] % 4) * 16) + (bytes[2] \div 16)),
          B64Char((bytes[2] % 16) * 4), B64Pad>>
    ELSE
        <<B64Char(bytes[1] \div 4),
          B64Char(((bytes[1] % 4) * 16) + (bytes[2] \div 16)),
          B64Char(((bytes[2] % 16) * 4) + (bytes[3] \div 64)),
          B64Char(bytes[3] % 64)>> \o B64Encode(SubSeq(bytes, 4, Len(bytes)))

\* base64.b64decode(v) with validate=False (binascii.a2b_base64): characters
\* outside the alphabet are skipped, a completed pad sequence ends the input,
\* and an unfinished quad at the end is an error.
RECURSIVE B64Scan(_, _, _, _, _, _)
B64Scan(chars, i, quad_pos, leftchar, pads, out) ==
    IF i > Len(chars) THEN
        IF quad_pos # 0 THEN [ok |-> FALSE, bytes |-> <<>>]
        ELSE [ok |-> TRUE, bytes |-> out]
    ELSE IF chars[i] = B64Pad THEN
        IF quad_pos >= 2 /\ quad_pos + pads + 1 >= 4
        THEN [ok |-> TRUE, bytes |-> out]
        ELSE B64Scan(chars, i + 1, quad_pos, leftchar,
                     IF quad_pos >= 2 THEN pads + 1 ELSE pads, out)
    ELSE IF B64Value(chars[i]) >= 64 THEN
        B64Scan(chars, i + 1, quad_pos, leftchar, pads, out)
    ELSE LET c == B64Value(chars[i]) IN
        CASE quad_pos = 0 -> B64Scan(chars, i + 1, 1, c, 0, out)
          [] quad_pos = 1 ->
                B64Scan(chars, i + 1, 2, c % 16, 0,
                        Append(out, (leftchar * 4) + (c \div 16)))
          [] quad_pos = 2 ->
                B64Scan(chars, i + 1, 3, c % 4, 0,
                        Append(out, (leftchar * 16) + (c \div 4)))
          [] OTHER ->
                B64Scan(chars, i + 1, 0, 0, 0, Append(out, (leftchar * 64) + c))

B64Decode(chars) == B64Scan(chars, 1, 0, 0, 0, <<>>)

\* str.encode("utf-8") for code points below U+0800
RECURSIVE Utf8Encode(_)
Utf8Encode(text) ==
    IF text = <<>> THEN <<>>
    ELSE (IF Head(text) < 128 THEN <<Head(text)>>
          ELSE <<192 + (Head(text) \div 64), 128 + (Head(text) % 64)>>)
         \o Utf8Encode(Tail(text))

\* bytes.decode("utf-8") for one- and two-byte sequences; any other byte
\* (a stray continuation byte, 0xC0, 0xC1, 0xFF, a truncated sequence) is a
\* UnicodeDecodeError.  The payloads of the model stay below U+0800.
RECURSIVE Utf8Decode(_)
Utf8Decode(bytes) ==
    IF bytes = <<>> THEN [ok |-> TRUE, text |-> <<>>]
    ELSE IF bytes[1] < 128 THEN
        LET rest == Utf8Decode(Tail(bytes)) IN
        [ok |-> rest.ok, text |-> IF rest.ok THEN <<bytes[1]>> \o rest.text ELSE <<>>]
    ELSE IF bytes[1] >= 194 /\ bytes[1] <= 223 /\ Len(bytes) >= 2
            /\ bytes[2] >= 128 /\ bytes[2] <= 191 THEN
        LET rest == Utf8Decode(SubSeq(bytes, 3, Len(bytes))) IN
        [ok |-> rest.ok,
         text |-> IF rest.ok
                  THEN <<((bytes[1] - 192) * 64) + (bytes[2] - 128)>> \o rest.text
                  ELSE <<>>]
    ELSE [ok |-> FALSE, text |-> <<>>]

\* b64decode(v).decode("utf-8")
BlobToText(v) ==
    LET raw == B64Decode(v.s) IN
    IF ~raw.ok THEN [ok |-> FALSE, val |-> PyNone, err |-> "binascii.Error"]
    ELSE LET t == Utf8Decode(raw.bytes) IN
         IF ~t.ok THEN [ok |-> FALSE, val |-> PyNone, err |-> "UnicodeDecodeError"]
         ELSE [ok |-> TRUE, val |-> Str(t.text), err |-> "none"]

\* int(s) for a string of decimal digits; anything else is a ValueError
IsDigits(s) == s # <<>> /\ \A i \in DOMAIN s : s[i] >= 48 /\ s[i] <= 57

RECURSIVE DigitsValue(_)
DigitsValue(s) ==
    IF s = <<>> THEN 0
    ELSE (DigitsValue(SubSeq(s, 1, Len(s) - 1)) * 10) + (s[Len(s)] - 48)

\* a lenient conversion: an identifier that is no number becomes 0
ParseIntLenient(s) == [ok |-> TRUE, n |-> IF IsDigits(s) THEN DigitsValue(s) ELSE 0]

ParseInt(s) ==
    IF IsDigits(s) THEN [ok |-> TRUE, n |-> DigitsValue(s)]
    ELSE [ok |-> FALSE, n |-> 0]

-----------------------------------------------------------------------------
(* Keys of a tagged value *)

TypedKey(t) == <<t, "Value">>
KeyExclude == <<"excludeFromIndexes">>
KeyMeaning == <<"meaning">>
KeyBlob == TypedKey("blob")

\* value.replace("Value", "")
TagOf(key) == SelectSeq(key, LAMBDA t : t # "Value")

\* "Value" in k
ContainsValue(key) == \E i \in DOMAIN key : key[i] = "Value"

\* the test of generate_scheme on a key of a tagged value
ContributesTag(key) == TagOf(key) # <<"null">> /\ key # KeyExclude

\* an inferred type: a tag, or None
SomeTag(tag) == [some |-> TRUE, tag |-> tag]
NoTag == [some |-> FALSE, tag |-> <<>>]

-----------------------------------------------------------------------------
(* generate_scheme *)

\* scheme[kind][property] = set(): an entry is created once and kept
WithKind(scheme, kind) ==
    IF kind \in DOMAIN scheme THEN scheme ELSE scheme @@ (kind :> <<>>)

WithProperty(props, property) ==
    IF property \in DOMAIN props THEN props ELSE props @@ (property :> {})

\* the inner loop: for value in opt
TagsOfOpt(opt) ==
    {TagOf(opt.items[i].k) : i \in {j \in DOMAIN opt.items : ContributesTag(opt.items[j].k)}}

\* the loop over entity["properties"].items()
RECURSIVE ScanProperties(_, _)
ScanProperties(props, properties) ==
    IF properties = <<>> THEN props
    ELSE LET p == Head(properties)
             withP == WithProperty(props, p.k)
         IN ScanProperties([withP EXCEPT ![p.k] = @ \cup TagsOfOpt(p.v)],
                           Tail(properties))

\* the loop over entityResults: the sets of observed tags
RECURSIVE ScanEntities(_, _)
ScanEntities(scheme, entityResults) ==
    IF entityResults = <<>> THEN scheme
    ELSE LET entity == Head(entityResults)
             withK == WithKind(scheme, entity.kind)
         IN ScanEntities(
                [withK EXCEPT ![entity.kind] = ScanProperties(@, entity.properties)],
                Tail(entityResults))

\* values.pop() if len(values) >= 1 else None: set.pop() removes an arbitrary
\* element, so every element is a possible result
Popped(values) ==
    IF Cardinality(values) >= 1 THEN {SomeTag(t) : t \in values} ELSE {NoTag}

\* the second loop: every scheme the collapse of the tag sets can produce
CollapsedProps(props) ==
    {f \in [DOMAIN props -> UNION {Popped(props[p]) : p \in DOMAIN props}] :
        \A p \in DOMAIN props : f[p] \in Popped(props[p])}

Collapsed(sets) ==
    {f \in [DOMAIN sets -> UNION {CollapsedProps(sets[k]) : k \in DOMAIN sets}] :
        \A k \in DOMAIN sets : f[k] \in CollapsedProps(sets[k])}

\* generate_scheme(data): the schemes it can return
GenerateScheme(entityResults) == Collapsed(ScanEntities(<<>>, entityResults))

-----------------------------------------------------------------------------
(* _parse_properties *)

\* the first key of opt that contains "Value", 0 when there is none
FirstValueKey(items) ==
    IF \E i \in DOMAIN items : ContainsValue(items[i].k)
    THEN CHOOSE i \in DOMAIN items :
            /\ ContainsValue(items[i].k)
            /\ \A j \in 1..(i - 1) : ~ContainsValue(items[j].k)
    ELSE 0

\* the inner loop without the blobValue branch: the payload is never decoded
ParseOptRaw(opt) ==
    LET i == FirstValueKey(opt.items) IN
    IF i = 0 THEN [ok |-> TRUE, val |-> PyNone, err |-> "none"]
    ELSE [ok |-> TRUE, val |-> opt.items[i].v, err |-> "none"]

\* the inner loop of _parse_properties on one tagged value: the flattened value
ParseOpt(opt) ==
    LET i == FirstValueKey(opt.items) IN
    IF i = 0 THEN [ok |-> TRUE, val |-> PyNone, err |-> "none"]
    ELSE IF opt.items[i].k = KeyBlob THEN BlobToText(opt.items[i].v)
    ELSE [ok |-> TRUE, val |-> opt.items[i].v, err |-> "none"]

\* _parse_properties(properties): the mapping is overwritten in place, one
\* property after the other; an exception leaves the properties before the
\* failing one flattened and the failing one None
RECURSIVE ParseFrom(_, _)
ParseFrom(properties, i) ==
    IF i > Len(properties) THEN [ok |-> TRUE, properties |-> properties, err |-> "none"]
    ELSE LET r == ParseOpt(properties[i].v) IN
         IF r.ok THEN ParseFrom([properties EXCEPT ![i].v = r.val], i + 1)
         ELSE [ok |-> FALSE, properties |-> [properties EXCEPT ![i].v = PyNone],
               err |-> r.err]

ParseProperties(properties) == ParseFrom(properties, 1)

-----------------------------------------------------------------------------
(* The responses the model draws from *)

Kinds == {"Task", "User"}
Properties == {"done", "note"}

\* key identifiers as the endpoint sends them: "12" and the name "x"
Ids == {<<49, 50>>, <<120>>}

\* texts over 'h' and U+00E9, stored as blobs
BlobTexts == SeqsUpTo({104, 233}, MaxTextLen)

\* "aGk" (a quad cut short) and "/w==" (the byte 0xFF, not UTF-8)
MalformedBlobs == {<<97, 71, 107>>, <<47, 119, 61, 61>>}

BlobPayloads == {B64Encode(Utf8Encode(t)) : t \in BlobTexts} \cup MalformedBlobs

KeyNames == {TypedKey("string"), KeyBlob, TypedKey("null"), KeyExclude, KeyMeaning}

Payloads(key) ==
    CASE key = TypedKey("string") -> {Str(<<115>>)}
      [] key = KeyBlob -> {Str(p) : p \in BlobPayloads}
      [] key = TypedKey("null") -> {PyNone}
      [] key = KeyExclude -> {PyTrue}
      [] OTHER -> {PyInt(18)}

Items == UNION {{[k |-> key, v |-> v] : v \in Payloads(key)} : key \in KeyNames}

\* every mapping of at most MaxKeys of the keys, in every key order
TaggedValues ==
    {Dict(q) : q \in {r \in SeqsUpTo(Items, MaxKeys) :
                        \A i, j \in DOMAIN r : i # j => r[i].k # r[j].k}}

\* one-key tagged values: a string, a null, the blob of "h" and a malformed blob
SimpleValues ==
    {Dict(<<[k |-> TypedKey("string"), v |-> Str(<<115>>)]>>),
     Dict(<<[k |-> TypedKey("null"), v |-> PyNone]>>),
     Dict(<<[k |-> KeyBlob, v |-> Str(B64Encode(Utf8Encode(<<104>>)))]>>),
     Dict(<<[k |-> KeyBlob, v |-> Str(<<97, 71, 107>>)]>>)}

Entity(kind, id, properties) == [kind |-> kind, id |-> id, properties |-> properties]

\* one entity whose first property holds any tagged value, alone or next to a
\* second property
DeepEntities ==
    {Entity("Task", <<49, 50>>, <<[k |-> "done", v |-> tv]>>) : tv \in TaggedValues}
    \cup {Entity("Task", <<49, 50>>, <<[k |-> "done", v |-> tv], [k |-> "note", v |-> sv]>>) :
            tv \in TaggedValues, sv \in SimpleValues}
    \cup {Entity("Task", <<49, 50>>, <<[k |-> "note", v |-> sv], [k |-> "done", v |-> tv]>>) :
            tv \in TaggedValues, sv \in SimpleValues}

\* entities of either kind and identifier with at most one one-key property
WideEntities ==
    {Entity(kind, id, <<>>) : kind \in Kinds, id \in Ids}
    \cup {Entity(kind, id, <<[k |-> p, v |-> sv]>>) :
            kind \in Kinds, id \in Ids, p \in Properties, sv \in SimpleValues}

\* batch.entityResults of a response
Batches == {<<e>> : e \in DeepEntities} \cup SeqsUpTo(WideEntities, MaxEntities)

Response(status_code, entityResults) ==
    [status_code |-> status_code, entityResults |-> entityResults]

Responses == {Response(200, b) : b \in Batches} \cup {Response(404, <<>>)}

NoResponse == Response(0, <<>>)

\* an exception: its type and, for the transport error of get_scheme, the
\* response whose status code and text it carries
Raised(type, resp) == [type |-> type, response |-> resp]
NoError == Raised("none", NoResponse)
NoOutput == [scheme |-> <<>>, entities |-> <<>>]

-----------------------------------------------------------------------------
(* format_response *)

\* what print() writes: the YAML dump of output_data, the parsed data, or the
\* response text
Printed(kind, scheme, entities, body) ==
    [kind |-> kind, scheme |-> scheme, entities |-> entities, body |-> body]

\* the entity appended to output_data["entities"]
EntityToAppend(entity, id, properties) ==
    [key |-> [kind |-> entity.kind, id |-> id], properties |-> properties]

\* the entities sharing one properties mapping: overwriting it changes all
DataAfterParseShared(d, i, properties) ==
    [n \in DOMAIN d |-> [d[n] EXCEPT !.properties = properties]]

\* data after _parse_properties has overwritten the properties of entity i
DataAfterParse(d, i, properties) == [d EXCEPT ![i].properties = properties]

\* where format_response goes after generate_scheme
AfterScheme(st) == IF st = StrScheme THEN "flatten" ELSE "print"

\* lines 120-126: a 200 response is parsed and its scheme generated; any
\* other response makes format_response return without printing
FormatResponse ==
    /\ pc = "format_response"
    /\ IF response.status_code = 200
       THEN /\ data' = response.entityResults
            /\ \E scheme \in GenerateScheme(response.entityResults) :
                  output_data' = [scheme |-> scheme, entities |-> <<>>]
            /\ idx' = 1
            /\ pc' = AfterScheme(style)
       ELSE /\ pc' = "done"
            /\ UNCHANGED <<data, output_data, idx>>
    /\ UNCHANGED <<argv, environ, stdin, args, client, requests, response,
                   format, style, stdout, err>>

\* lines 128-141: one iteration of the loop over entityResults
FlattenEntity ==
    /\ pc = "flatten"
    /\ idx <= Len(data)
    /\ LET entity == data[idx]
           id == ParseInt(entity.id)
           parsed == ParseProperties(entity.properties)
       IN IF ~id.ok
          THEN /\ pc' = "error"
               /\ err' = Raised("ValueError", NoResponse)
               /\ UNCHANGED <<data, output_data, idx>>
          ELSE IF ~parsed.ok
          THEN /\ pc' = "error"
               /\ err' = Raised(parsed.err, NoResponse)
               /\ data' = DataAfterParse(data, idx, parsed.properties)
               /\ UNCHANGED <<output_data, idx>>
          ELSE /\ data' = DataAfterParse(data, idx, parsed.properties)
               /\ output_data' =
                    [output_data EXCEPT !.entities =
                        Append(@, EntityToAppend(entity, id.n, parsed.properties))]
               /\ idx' = idx + 1
               /\ UNCHANGED <<pc, err>>
    /\ UNCHANGED <<argv, environ, stdin, args, client, requests, response,
                   format, style, stdout>>

\* the loop over entityResults ends
FlattenDone ==
    /\ pc = "flatten"
    /\ idx > Len(data)
    /\ pc' = "print"
    /\ UNCHANGED <<argv, environ, stdin, args, client, requests, response,
                   format, style, data, output_data, idx, stdout, err>>

\* lines 143-149: what format_response prints for a format
PrintedFor(fmt) ==
    IF fmt = StrYaml THEN Printed("yaml", output_data.scheme, output_data.entities, <<>>)
    ELSE IF fmt = StrJson THEN Printed("data", <<>>, <<>>, data)
    ELSE Printed("text", <<>>, <<>>, response.entityResults)

PrintOutput ==
    /\ pc = "print"
    /\ stdout' = Append(stdout, PrintedFor(format))
    /\ pc' = "done"
    /\ UNCHANGED <<argv, environ, stdin, args, client, requests, response,
                   format, style, data, output_data, idx, err>>

-----------------------------------------------------------------------------
(* format_response on every response, format and style *)

Formats == {StrYaml, StrJson, PyTrue}
Styles == {StrScheme, PyTrue}

InitFormat ==
    /\ pc = "format_response"
    /\ argv = <<>>
    /\ environ = {}
    /\ stdin = <<>>
    /\ args = <<>>
    /\ client = <<>>
    /\ requests = <<>>
    /\ response \in Responses
    /\ format \in Formats
    /\ style \in Styles
    /\ data = <<>>
    /\ output_data = NoOutput
    /\ idx = 0
    /\ stdout = <<>>
    /\ err = NoError

NextFormat == FormatResponse \/ FlattenEntity \/ FlattenDone \/ PrintOutput

SpecFormat == InitFormat /\ [][NextFormat]_vars

-----------------------------------------------------------------------------
(* Configuration: the class attributes of Datastore and its constructor *)

Settings ==
    {"DATASTORE_DATASET", "DATASTORE_HOST", "DATASTORE_EMULATOR_HOST",
     "DATASTORE_EMULATOR_HOST_PATH", "DATASTORE_PROJECT_ID"}

\* the second argument of each os.getenv
BuiltinDefault(name) ==
    CASE name = "DATASTORE_DATASET" -> "test"
      [] name = "DATASTORE_HOST" -> "http://localhost:8081"
      [] name = "DATASTORE_EMULATOR_HOST" -> "localhost:8081"
      [] name = "DATASTORE_EMULATOR_HOST_PATH" -> "localhost:8081/datastore"
      [] OTHER -> "test"

\* os.getenv(name, default)
Getenv(env, name, default) == IF name \in DOMAIN env THEN env[name] ELSE default

\* the class attributes, read from the environment when the class is defined
ClassAttrs(env) == [name \in Settings |-> Getenv(env, name, BuiltinDefault(name))]

\* X or self.X, with None for an argument that is not passed
OrDefault(given, default) == IF given = "None" \/ given = "" THEN default ELSE given

\* Datastore.__init__(**kwargs)
DatastoreInit(kwargs, attrs) ==
    [name \in Settings |-> OrDefault(kwargs[name], attrs[name])]

\* the arguments main() passes to Datastore(): none
MainKwargs(a) == [name \in Settings |-> "None"]

-----------------------------------------------------------------------------
(* get_args *)

StrDash == Str(<<45>>)
StrKinds == Str(<<107, 105, 110, 100, 115>>)

\* a flag without effect: the default whether it is given or not
StoreTrueIgnored(given, default) == default

\* action="store_true" with a default: the default when the flag is absent,
\* True when it is given
StoreTrue(given, default) == IF given THEN PyTrue ELSE default

\* an option with a default: the value given, else the default
StoreValue(flags, name, default) ==
    IF name \in DOMAIN flags THEN flags[name] ELSE default

\* parser.parse_args()
ParseArgs(line, env) ==
    [action |-> line.action,
     content |-> line.content,
     subcontent |-> line.subcontent,
     datastore |-> [name \in Settings |->
                        StoreValue(line.flags, name, ClassAttrs(env)[name])],
     limit |-> PyInt(100),
     format |-> StoreTrue(line.format, StrYaml),
     style |-> StoreTrue(line.style, StrScheme)]

-----------------------------------------------------------------------------
(* _clean_query *)

\* text.split("\n")
RECURSIVE SplitLines(_)
SplitLines(text) ==
    IF \A i \in DOMAIN text : text[i] # 10 THEN <<text>>
    ELSE LET n == CHOOSE i \in DOMAIN text :
                    text[i] = 10 /\ \A j \in 1..(i - 1) : text[j] # 10
         IN <<SubSeq(text, 1, n - 1)>> \o SplitLines(SubSeq(text, n + 1, Len(text)))

\* "\n".join(lines)
RECURSIVE JoinLines(_)
JoinLines(lines) ==
    IF lines = <<>> THEN <<>>
    ELSE IF Len(lines) = 1 THEN lines[1]
    ELSE lines[1] \o <<10>> \o JoinLines(Tail(lines))

\* line.startswith("-")
StartsWithDash(line) == Len(line) >= 1 /\ line[1] = 45

\* line.startswith("--")
StartsWithDashes(line) == Len(line) >= 2 /\ line[1] = 45 /\ line[2] = 45

\* _clean_query(text)[0]
CleanQuery(text) ==
    JoinLines(SelectSeq(SplitLines(text), LAMBDA line : ~StartsWithDashes(line)))

-----------------------------------------------------------------------------
(* main and the operations of Datastore that send a request *)

\* the chain of main() ending in a plain else: put and delete list
HandlerElseLists(a) ==
    IF a.action = "query" THEN "query"
    ELSE IF a.action = "get"
         THEN (IF a.subcontent = StrScheme THEN "get_scheme" ELSE "get")
    ELSE IF a.content = StrKinds THEN "getKinds" ELSE "list"

\* the branch of main() an invocation takes
Handler(a) ==
    IF a.action = "query" THEN "query"
    ELSE IF a.action = "get"
         THEN (IF a.subcontent = StrScheme THEN "get_scheme" ELSE "get")
    ELSE IF a.action = "list"
         THEN (IF a.content = StrKinds THEN "getKinds" ELSE "list")
    ELSE "none"

\* the text of a query: standard input when content is "-" or missing
QueryInput(a, input) ==
    IF a.content = StrDash \/ a.content = PyNone THEN input ELSE a.content.s

\* the JSON body of a request: the query string (a text, or a template and
\* the values formatted into it)
Body(template, text, kind, arg) ==
    [template |-> template, text |-> text, kind |-> kind, arg |-> arg]

\* requests.post(self.DATASTORE_HOST + f"/v1/projects/{self.DATASTORE_PROJECT_ID}:runQuery", json=body)
Post(c, body) ==
    [host |-> c["DATASTORE_HOST"], project |-> c["DATASTORE_PROJECT_ID"], body |-> body]

\* the body each operation sends
BodyOf(handler, a, input) ==
    CASE handler = "query" -> Body("gqlQuery", CleanQuery(QueryInput(a, input)), PyNone, PyNone)
      [] handler = "get" -> Body("get", <<>>, a.content, a.subcontent)
      [] handler = "get_scheme" -> Body("scheme", <<>>, a.content, PyNone)
      [] handler = "list" -> Body("list", <<>>, a.content, a.limit)
      [] OTHER -> Body("kinds", <<>>, PyNone, PyNone)

\* args = get_args()
GetArgs ==
    /\ pc = "start"
    /\ args' = ParseArgs(argv, environ)
    /\ pc' = "parsed"
    /\ UNCHANGED <<argv, environ, stdin, client, requests, response, format,
                   style, data, output_data, idx, stdout, err>>

\* client = Datastore()
Construct ==
    /\ pc = "parsed"
    /\ client' = DatastoreInit(MainKwargs(args), ClassAttrs(environ))
    /\ pc' = "constructed"
    /\ UNCHANGED <<argv, environ, stdin, args, requests, response, format,
                   style, data, output_data, idx, stdout, err>>

\* an operation sends its request and blocks in requests.post
Send(handler) ==
    /\ requests' = Append(requests, Post(client, BodyOf(handler, args, stdin)))
    /\ pc' = "requests.post"
    /\ UNCHANGED <<argv, environ, stdin, args, client, response, format,
                   style, data, output_data, idx, stdout, err>>

\* client.query(...)
Query ==
    /\ pc = "constructed"
    /\ Handler(args) = "query"
    /\ Send("query")

\* client.get(kind, id)
Get ==
    /\ pc = "constructed"
    /\ Handler(args) = "get"
    /\ Send("get")

\* client.get_scheme(kind)
GetScheme ==
    /\ pc = "constructed"
    /\ Handler(args) = "get_scheme"
    /\ Send("get_scheme")

\* client.list(args.content, args.limit)
List ==
    /\ pc = "constructed"
    /\ Handler(args) = "list"
    /\ Send("list")

\* client.getKinds()
GetKinds ==
    /\ pc = "constructed"
    /\ Handler(args) = "getKinds"
    /\ Send("getKinds")

\* put and delete: no branch of main() matches
NoAction ==
    /\ pc = "constructed"
    /\ Handler(args) = "none"
    /\ pc' = "done"
    /\ UNCHANGED <<argv, environ, stdin, args, client, requests, response,
                   format, style, data, output_data, idx, stdout, err>>

\* the responses of the endpoint
CliBatches ==
    {<<>>,
     <<Entity("Task", <<49, 50>>,
              <<[k |-> "done", v |-> Dict(<<[k |-> TypedKey("string"), v |-> Str(<<115>>)]>>)]>>)>>,
     <<Entity("Task", <<49, 50>>, <<>>), Entity("Task", <<120>>, <<>>)>>}

CliResponses ==
    {Response(200, b) : b \in CliBatches} \cup {Response(404, <<>>), Response(500, <<>>)}

\* requests.post returns
HttpResponse ==
    /\ pc = "requests.post"
    /\ response' \in CliResponses
    /\ pc' = "returned"
    /\ UNCHANGED <<argv, environ, stdin, args, client, requests, format,
                   style, data, output_data, idx, stdout, err>>

\* query passes the format and style of the command line on, get and list
\* leave format_response its defaults
FormatArg(handler, a) == IF handler = "query" THEN a.format ELSE StrYaml
StyleArg(handler, a) == IF handler = "query" THEN a.style ELSE StrScheme

\* query, get, list: self.format_response(response, ...)
CallFormatResponse ==
    /\ pc = "returned"
    /\ Handler(args) \in {"query", "get", "list"}
    /\ format' = FormatArg(Handler(args), args)
    /\ style' = StyleArg(Handler(args), args)
    /\ pc' = "format_response"
    /\ UNCHANGED <<argv, environ, stdin, args, client, requests, response,
                   data, output_data, idx, stdout, err>>

\* get_scheme, lines 68-71: the scheme is returned (main drops it), or the
\* transport error is raised
SchemeReturned ==
    /\ pc = "returned"
    /\ Handler(args) = "get_scheme"
    /\ IF response.status_code = 200
       THEN pc' = "done" /\ err' = err
       ELSE pc' = "error" /\ err' = Raised("Exception", response)
    /\ UNCHANGED <<argv, environ, stdin, args, client, requests, response,
                   format, style, data, output_data, idx, stdout>>

\* getKinds, lines 210-211: the parsed response is printed when it is a 200
KindsReturned ==
    /\ pc = "returned"
    /\ Handler(args) = "getKinds"
    /\ stdout' = IF response.status_code = 200
                 THEN Append(stdout, Printed("data", <<>>, <<>>, response.entityResults))
                 ELSE stdout
    /\ pc' = "done"
    /\ UNCHANGED <<argv, environ, stdin, args, client, requests, response,
                   format, style, data, output_data, idx, err>>

-----------------------------------------------------------------------------
(* The command lines and environments the model draws from *)

Line(action, content, subcontent, flags, fmt, st) ==
    [action |-> action, content |-> content, subcontent |-> subcontent,
     flags |-> flags, format |-> fmt, style |-> st]

Actions == {"query", "get", "list", "put", "delete"}

\* the configuration flags given, at most MaxFlags of them
FlagSets ==
    {[name \in given |-> "from-flag"] :
        given \in {g \in SUBSET Settings : Cardinality(g) <= MaxFlags}}

\* no variable set, the host set, every variable set
Environments ==
    {[name \in set |-> "from-env"] : set \in {{}, {"DATASTORE_HOST"}, Settings}}

\* "--a", a line feed, "b"
CommentedQuery == <<45, 45, 97, 10, 98>>

InitProcess ==
    /\ pc = "start"
    /\ args = <<>>
    /\ client = <<>>
    /\ requests = <<>>
    /\ response = NoResponse
    /\ format = PyNone
    /\ style = PyNone
    /\ data = <<>>
    /\ output_data = NoOutput
    /\ idx = 0
    /\ stdout = <<>>
    /\ err = NoError

Init ==
    /\ InitProcess
    /\ \E action \in Actions, content \in {PyNone, StrDash, StrKinds, Str(<<84>>)},
          subcontent \in {PyNone, StrScheme}, flags \in FlagSets,
          fmt \in BOOLEAN, st \in BOOLEAN :
            \* a subcontent is the second positional: it follows a content
            /\ content = PyNone => subcontent = PyNone
            /\ argv = Line(action, content, subcontent, flags, fmt, st)
    /\ environ \in Environments
    /\ stdin = CommentedQuery

Next ==
    \/ GetArgs
    \/ Construct
    \/ Query
    \/ Get
    \/ GetScheme
    \/ List
    \/ GetKinds
    \/ NoAction
    \/ HttpResponse
    \/ CallFormatResponse
    \/ SchemeReturned
    \/ KindsReturned
    \/ FormatResponse
    \/ FlattenEntity
    \/ FlattenDone
    \/ PrintOutput

Spec == Init /\ [][Next]_vars

-----------------------------------------------------------------------------
(* The query action on every query text *)

\* texts over '-', 'a' and the line feed
QueryTexts == SeqsUpTo({45, 97, 10}, MaxQueryLen)

InitQuery ==
    /\ InitProcess
    /\ \E content \in {PyNone, StrDash} \cup {Str(text) : text \in QueryTexts} :
        /\ argv = Line("query", content, PyNone, <<>>, FALSE, FALSE)
        /\ IF content \in {PyNone, StrDash} THEN stdin \in QueryTexts ELSE stdin = <<>>
    /\ environ = <<>>

NextQuery ==
    \/ GetArgs
    \/ Construct
    \/ Query
    \/ HttpResponse
    \/ CallFormatResponse
    \/ FormatResponse
    \/ FlattenEntity
    \/ FlattenDone
    \/ PrintOutput

SpecQuery == InitQuery /\ [][NextQuery]_vars

-----------------------------------------------------------------------------
(* Properties of generate_scheme and _parse_properties, under SpecFormat *)

\* format_response has generated the scheme of a 200 response
SchemeGenerated ==
    response.status_code = 200 /\ pc \in {"flatten", "print", "done", "error"}

\* a key of the form <type>Value
IsTypedKey(key) == Len(key) = 2 /\ key[2] = "Value" /\ key[1] # "Value"

\* the keys of a tagged value
KeysOf(opt) == {opt.items[i].k : i \in DOMAIN opt.items}

\* the positions <<entity, property>> of a batch
Slots(batch) ==
    UNION {{<<i, j>> : j \in DOMAIN batch[i].properties} : i \in DOMAIN batch}

\* the tagged values the batch holds for a kind and a property
ValuesFor(batch, kind, property) ==
    {batch[x[1]].properties[x[2]].v :
        x \in {y \in Slots(batch) :
                /\ batch[y[1]].kind = kind
                /\ batch[y[1]].properties[y[2]].k = property}}

KindsOf(batch) == {batch[i].kind : i \in DOMAIN batch}

PropertiesOf(batch, kind) ==
    {batch[x[1]].properties[x[2]].k : x \in {y \in Slots(batch) : batch[y[1]].kind = kind}}

\* the non-null tags of the typed keys observed for a kind and a property
TypedTags(batch, kind, property) ==
    {key[1] : key \in {k \in UNION {KeysOf(opt) : opt \in ValuesFor(batch, kind, property)} :
                        IsTypedKey(k) /\ k[1] # "null"}}

\* C2: the scheme has an entry for exactly the kinds and properties of the
\* batch; the entry of a pair is one of the non-null tags of the typed keys
\* observed for that pair, and None when there is no such tag.
C2_SchemeOfObservedTags ==
    SchemeGenerated =>
        LET batch == response.entityResults
            scheme == output_data.scheme
        IN /\ DOMAIN scheme = KindsOf(batch)
           /\ \A kind \in KindsOf(batch) :
                /\ DOMAIN scheme[kind] = PropertiesOf(batch, kind)
                /\ \A property \in PropertiesOf(batch, kind) :
                     LET tags == TypedTags(batch, kind, property) IN
                     IF tags # {}
                     THEN /\ scheme[kind][property].some
                          /\ scheme[kind][property].tag \in {<<t>> : t \in tags}
                     ELSE scheme[kind][property] = NoTag

\* a tagged value without a key of the form <type>Value
NoTypedKey(opt) == \A key \in KeysOf(opt) : ~IsTypedKey(key)

\* C4: a tagged value with no typed key adds no tag to the scheme (the type of
\* a pair whose values all lack a typed key is None) and flattens to None.
C4_NoTypedKeyIsNull ==
    SchemeGenerated =>
        LET batch == response.entityResults
            scheme == output_data.scheme
        IN /\ \A kind \in KindsOf(batch) :
                \A property \in PropertiesOf(batch, kind) :
                    (\A opt \in ValuesFor(batch, kind, property) : NoTypedKey(opt))
                        => scheme[kind][property] = NoTag
           /\ \A i \in DOMAIN output_data.entities :
                \A j \in DOMAIN batch[i].properties :
                    NoTypedKey(batch[i].properties[j].v)
                        => output_data.entities[i].properties[j].v = PyNone

\* exactly one typed key, next to nothing or to an excludeFromIndexes flag
OneTypedKey(opt) ==
    /\ Cardinality({k \in KeysOf(opt) : IsTypedKey(k)}) = 1
    /\ \A k \in KeysOf(opt) : IsTypedKey(k) \/ k = KeyExclude

\* the item of the typed key of such a value
TypedItem(opt) == opt.items[CHOOSE i \in DOMAIN opt.items : IsTypedKey(opt.items[i].k)]

\* C3: a flattened property whose tagged value has exactly one typed key holds
\* the payload unchanged, or for blobValue the text whose base64 encoding the
\* payload is; it never holds the excludeFromIndexes flag.
C3_FlattenedValue ==
    SchemeGenerated =>
        \A i \in DOMAIN output_data.entities :
            \A j \in DOMAIN response.entityResults[i].properties :
                LET opt == response.entityResults[i].properties[j].v
                    flat == output_data.entities[i].properties[j].v
                IN OneTypedKey(opt) =>
                    IF TypedItem(opt).k = KeyBlob
                    THEN \E text \in BlobTexts :
                            /\ TypedItem(opt).v = Str(B64Encode(Utf8Encode(text)))
                            /\ flat = Str(text)
                    ELSE flat = TypedItem(opt).v

\* C3 happens: a blob of a non-ASCII text behind an excludeFromIndexes flag
\* has been flattened to that text
C3_Witness ==
    /\ pc = "done"
    /\ Len(output_data.entities) = 1
    /\ \E j \in DOMAIN response.entityResults[1].properties :
        LET opt == response.entityResults[1].properties[j].v IN
        /\ Len(opt.items) = 2
        /\ opt.items[1].k = KeyExclude
        /\ opt.items[2].k = KeyBlob
        /\ output_data.entities[1].properties[j].v = Str(<<233, 104>>)

\* an entity that cannot be flattened: its identifier is not a decimal number,
\* or the blob one of its properties decodes is malformed
FailsToFlatten(entity) ==
    \/ ~IsDigits(entity.id)
    \/ \E j \in DOMAIN entity.properties :
        LET items == entity.properties[j].v.items
            valueKeys == {i \in DOMAIN items : ContainsValue(items[i].k)}
        IN /\ valueKeys # {}
           /\ LET first == CHOOSE i \in valueKeys : \A n \in valueKeys : i <= n IN
              /\ items[first].k = KeyBlob
              /\ items[first].v.s \in MalformedBlobs

\* C5: a 200 response formatted with style "scheme" that holds an entity which
\* fails to flatten never prints anything and never ends normally: until the
\* error is raised the loop has an entity left, and nothing is printed.
C5_NoPartialOutput ==
    (/\ response.status_code = 200
     /\ style = StrScheme
     /\ \E i \in DOMAIN response.entityResults :
            FailsToFlatten(response.entityResults[i]))
        => /\ stdout = <<>>
           /\ pc # "done"
           /\ pc # "print"
           /\ pc = "flatten" => idx <= Len(data)

\* C5 happens: the second entity of a batch failed after the first one had
\* been flattened, and nothing was printed
C5_Witness ==
    /\ pc = "error"
    /\ style = StrScheme
    /\ Len(response.entityResults) = 2
    /\ Len(output_data.entities) = 1
    /\ FailsToFlatten(response.entityResults[2])
    /\ stdout = <<>>

\* after generate_scheme: the scheme is one of the original response, and the
\* data differs from the response in the properties of flattened entities only
C10_State ==
    SchemeGenerated =>
        /\ output_data.scheme \in GenerateScheme(response.entityResults)
        /\ Len(data) = Len(response.entityResults)
        /\ \A i \in DOMAIN data :
            /\ data[i].kind = response.entityResults[i].kind
            /\ data[i].id = response.entityResults[i].id
            /\ i > Len(output_data.entities) /\ ~(pc = "error" /\ i = idx)
                => data[i] = response.entityResults[i]

\* a step of the flattening loop or of the printing keeps the scheme
C10_Step == pc \in {"flatten", "print"} => (output_data.scheme)' = output_data.scheme

\* C10: the scheme of the output is a scheme of the original response and is
\* not changed by flattening; flattening changes the properties of the
\* flattened entities only, never an entity not yet flattened nor a key.
C10_SchemeBeforeFlatten == []C10_State /\ [][C10_Step]_vars

\* C10 happens: the first entity of a two-entity batch with a property of two
\* observed types has been flattened, the second not yet
C10_Witness ==
    /\ pc = "flatten"
    /\ idx = 2
    /\ Len(data) = 2
    /\ data[1] # response.entityResults[1]
    /\ data[2] = response.entityResults[2]
    /\ \E kind \in KindsOf(data) :
        \E property \in DOMAIN output_data.scheme[kind] :
            Cardinality(TypedTags(response.entityResults, kind, property)) = 2

-----------------------------------------------------------------------------
(* Properties of main and of the operations that send a request, under Spec *)

\* the call has returned
Returned == pc \in {"returned", "format_response", "flatten", "print", "done", "error"}
              /\ requests # <<>>

\* C1: query, get, list and get-scheme never end normally on a response that
\* is not a 200; they end in the transport error that carries the response's
\* status code and text.
C1_Non200Raises ==
    (/\ Returned
     /\ Handler(args) \in {"query", "get", "list", "get_scheme"}
     /\ response.status_code # 200)
        => /\ pc # "done"
           /\ pc = "error" => err = Raised("Exception", response)

\* format_response has been called by the query action
QueryFormatting ==
    /\ pc \in {"format_response", "flatten", "print", "done", "error"}
    /\ requests # <<>>
    /\ Handler(args) = "query"

\* C6 (as claimed): whatever flags are given, the query action reaches
\* format_response with format "yaml" and style "scheme" and prints the YAML
\* dump of the scheme and the flattened entities.
C6_FlagsNeverChangeBehaviour ==
    QueryFormatting =>
        /\ format = StrYaml
        /\ style = StrScheme
        /\ stdout # <<>> =>
            /\ stdout[1].kind = "yaml"
            /\ Len(stdout[1].entities) = Len(response.entityResults)

\* C6 (amended): the query action reaches format_response with format "yaml"
\* exactly when --format is absent and with True when it is given, and with
\* style "scheme" exactly when --style is absent and with True when it is
\* given; with --format the response text is printed instead of the YAML
\* dump, with --style no entity is flattened; no flag selects "json".
C6_FlagsSwitchToTrue ==
    QueryFormatting =>
        /\ format = (IF argv.format THEN PyTrue ELSE StrYaml)
        /\ style = (IF argv.style THEN PyTrue ELSE StrScheme)
        /\ pc = "flatten" => ~argv.style
        /\ argv.style => output_data.entities = <<>>
        /\ stdout # <<>> =>
            /\ stdout[1].kind = (IF argv.format THEN "text" ELSE "yaml")
            /\ ~argv.format /\ ~argv.style
                => Len(stdout[1].entities) = Len(response.entityResults)

\* C6 happens: --format was given and the query action printed the response
\* text of a batch of one entity
C6_Witness ==
    /\ QueryFormatting
    /\ argv.format
    /\ ~argv.style
    /\ pc = "done"
    /\ Len(response.entityResults) = 1
    /\ stdout # <<>>
    /\ stdout[1].kind = "text"

\* C7: the client of an invocation holds, for every configuration flag given,
\* the flag's value (and the request goes to the flag's host and project),
\* and for every flag not given the environment's value or the default.
C7_FlagsOverride ==
    pc \notin {"start", "parsed"} =>
        /\ \A name \in Settings :
            client[name] = IF name \in DOMAIN argv.flags THEN argv.flags[name]
                           ELSE Getenv(environ, name, BuiltinDefault(name))
        /\ \A i \in DOMAIN requests :
            /\ "DATASTORE_HOST" \in DOMAIN argv.flags
                => requests[i].host = argv.flags["DATASTORE_HOST"]
            /\ "DATASTORE_PROJECT_ID" \in DOMAIN argv.flags
                => requests[i].project = argv.flags["DATASTORE_PROJECT_ID"]

\* C8: an invocation sends at most one request; nothing is printed before the
\* call has returned; put and delete send nothing, print nothing and raise
\* nothing.
C8_OneCallThenOutput ==
    /\ Len(requests) <= 1
    /\ stdout # <<>> => Returned /\ response # NoResponse
    /\ argv.action \in {"put", "delete"} =>
        /\ requests = <<>>
        /\ stdout = <<>>
        /\ pc \in {"start", "parsed", "constructed", "done"}
        /\ err = NoError

\* C8 happens: a put with a content and a subcontent has ended
C8_Witness ==
    /\ argv.action = "put"
    /\ argv.content # PyNone
    /\ argv.subcontent # PyNone
    /\ pc = "done"

-----------------------------------------------------------------------------
(* Properties of _clean_query, under SpecQuery *)

\* the text the query action was given
GivenText == QueryInput(argv, stdin)

\* a line whose first two characters are "--"
IsCommentLine(line) == Len(line) >= 2 /\ SubSeq(line, 1, 2) = <<45, 45>>

\* C9: the query string sent is the given text without the lines that start
\* with "--": its lines are the other lines, unchanged and in order (it is
\* empty when no line is left), and cleaning it again changes nothing.
C9_CommentLinesRemoved ==
    \A i \in DOMAIN requests :
        LET sent == requests[i].body.text
            kept == SelectSeq(SplitLines(GivenText), LAMBDA line : ~IsCommentLine(line))
        IN /\ IF kept = <<>> THEN sent = <<>> ELSE SplitLines(sent) = kept
           /\ \A n \in DOMAIN SplitLines(sent) : ~IsCommentLine(SplitLines(sent)[n])
           /\ CleanQuery(sent) = sent

\* C9 happens: a text with a comment line between two other lines was sent
\* without it
C9_Witness ==
    /\ requests # <<>>
    /\ GivenText = <<97, 10, 45, 45, 10, 97>>
    /\ requests[1].body.text = <<97, 10, 97>>

====
